---------------------------- MODULE Spec2Model ----------------------------
(***************************************************************************)
(* Model of the storefront App shell (src/vite.config.ts): the view state  *)
(* machine, the loading gate, the asynchronous fetch / admin-mutation      *)
(* handlers against the remote data store, the auth gate and the theme     *)
(* engine.                                                                 *)
(***************************************************************************)
EXTENDS Integers, Sequences, FiniteSets, TLC

VARIABLES
  loading, view,                                  \* useState, lines 68-69
  products, blogs, pages, config,                 \* useState, lines 72-75
  selectedProduct, selectedBlog, selectedPage,    \* useState, lines 78-80
  isDarkMode, loginPassword, loginError, showPassword, \* useState, lines 83-86
  pc,            \* "init" before the mount effect has run, "mounted" after
  displayed,     \* what the last render of App returned
  storing,       \* the continuation of fetchData (lines 97-101) in progress
  fetches,       \* fetchData calls awaiting Promise.all (line 91)
  writes,        \* admin handlers awaiting their adapter write (190-196)
  nWrites,       \* number of admin handler invocations so far
  db,            \* contents of the remote data store
  unhandled,     \* some promise of the App has rejected with no handler
  authenticated, \* persisted authentication flag of the auth service
  urlPage,       \* value of the query parameter "page"
  savedTheme, prefersDark, rootDark,  \* localStorage 'theme', media query, <html class>
  style,         \* the --brand-* custom properties of the document root
  hexColor       \* the argument of the theme engine under SpecTheme

vars == << loading, view, products, blogs, pages, config,
           selectedProduct, selectedBlog, selectedPage,
           isDarkMode, loginPassword, loginError, showPassword,
           pc, displayed, storing, fetches, writes, nWrites, db, unhandled,
           authenticated, urlPage, savedTheme, prefersDark, rootDark,
           style, hexColor >>

-----------------------------------------------------------------------------
(* Bounds *)

\* admin handler invocations in one behaviour of Spec
MaxWrites == 1
\* admin handler invocations in one behaviour of SpecAdmin
MaxAdminWrites == 2

-----------------------------------------------------------------------------
(* JavaScript values *)

Null == [null |-> TRUE]

\* a JS string, as the sequence of its characters
Str(chars) == [t |-> "string", s |-> chars]
\* values of other types that can reach hexToRgb at run time
NotAString == {[t |-> "undefined", s |-> <<>>], [t |-> "null", s |-> <<>>],
               [t |-> "number", s |-> <<>>]}

-----------------------------------------------------------------------------
(* Theme engine, lines 36-65 *)

DefaultRgb == [r |-> 37, g |-> 99, b |-> 235]

HexChars == << "0", "1", "2", "3", "4", "5", "6", "7", "8", "9",
               "a", "b", "c", "d", "e", "f" >>
HexCharsUpper == << "0", "1", "2", "3", "4", "5", "6", "7", "8", "9",
                    "A", "B", "C", "D", "E", "F" >>

\* [a-f\d] under the i flag
IsHexDigit(ch) == \E i \in 1..16 : HexChars[i] = ch \/ HexCharsUpper[i] = ch

DigitValue(ch) ==
  (CHOOSE i \in 1..16 : HexChars[i] = ch \/ HexCharsUpper[i] = ch) - 1

\* parseInt(xy, 16) of a two-digit group
ParseInt16(hi, lo) == 16 * DigitValue(hi) + DigitValue(lo)

\* the pattern without its closing anchor: characters may follow the digits
RegexExec_Unanchored(s) ==
  LET body == IF Len(s) > 0 /\ s[1] = "#" THEN Tail(s) ELSE s
  IN  IF Len(body) >= 6 /\ \A i \in 1..6 : IsHexDigit(body[i])
        THEN SubSeq(body, 1, 6) ELSE << >>

\* /^#?([a-f\d]{2})([a-f\d]{2})([a-f\d]{2})$/i : the six digits, or <<>> on no match
RegexExec(s) ==
  LET body == IF Len(s) > 0 /\ s[1] = "#" THEN Tail(s) ELSE s
  IN  IF Len(body) = 6 /\ \A i \in 1..6 : IsHexDigit(body[i])
        THEN body ELSE << >>

\* a string or number used as a condition: "" is falsy, as are null and undefined
TruthyValue(v) == (v.t = "string" /\ v.s # << >>) \/ v.t = "number"

hexToRgb(hex) ==
  IF ~TruthyValue(hex) \/ hex.t # "string" THEN DefaultRgb
  ELSE LET result == RegexExec(hex.s)
       IN  IF result # << >>
             THEN [r |-> ParseInt16(result[1], result[2]),
                   g |-> ParseInt16(result[3], result[4]),
                   b |-> ParseInt16(result[5], result[6])]
             ELSE DefaultRgb

\* Math.floor in the place of Math.round
MathRound_Floor(num, den) == num \div den

\* Math.round(x) for x = num / den, den > 0: the nearest integer, halves up
MathRound(num, den) == (2 * num + den) \div (2 * den)

\* mix with the weight left off its second term
MixChannel_Unweighted(c1, c2, w100) ==
  MathRound(c1 * (100 - w100) + c2 * 100, 100)

\* c1 * (1 - weight) + c2 * weight, rounded; weight is w100 / 100
MixChannel(c1, c2, w100) == MathRound(c1 * (100 - w100) + c2 * w100, 100)

mix(c1, c2, w100) ==
  [r |-> MixChannel(c1.r, c2.r, w100),
   g |-> MixChannel(c1.g, c2.g, w100),
   b |-> MixChannel(c1.b, c2.b, w100)]

White == [r |-> 255, g |-> 255, b |-> 255]
Black == [r |-> 0, g |-> 0, b |-> 0]

\* the palette object of applyTheme, keyed by shade
Palette(base) ==
  (50 :> mix(base, White, 95)) @@ (100 :> mix(base, White, 90)) @@
  (200 :> mix(base, White, 75)) @@ (300 :> mix(base, White, 60)) @@
  (400 :> mix(base, White, 30)) @@ (500 :> mix(base, White, 10)) @@
  (600 :> base) @@
  (700 :> mix(base, Black, 10)) @@ (800 :> mix(base, Black, 25)) @@
  (900 :> mix(base, Black, 40)) @@ (950 :> mix(base, Black, 60))

\* `${value.r} ${value.g} ${value.b}` : the three numbers, space separated
RgbTriple(value) == << value.r, value.g, value.b >>

\* root.style after applyTheme(hexColor) on root.style = st:
\* setProperty('--brand-<key>', ...) for every entry of the palette
applyTheme(st, hex) ==
  LET palette == Palette(hexToRgb(hex))
  IN  [key \in DOMAIN palette |-> RgbTriple(palette[key])] @@ st

-----------------------------------------------------------------------------
(* Data: entities of src/unnamed/part_000 and the remote store *)

PageView == { "HOME", "SHOP", "PRODUCT_DETAIL", "BLOG", "BLOG_DETAIL",
              "DYNAMIC_PAGE", "ADMIN_LOGIN", "ADMIN_DASHBOARD" }

ProductValues == { [id |-> "p1", name |-> "Amplifier"] }
BlogValues == { [id |-> "b1", title |-> "Tips"] }
PageValues == { [id |-> "g1", slug |-> "about"] }

ThemeBlue == Str(<< "#", "2", "5", "6", "3", "E", "B" >>)
ThemeRed == Str(<< "f", "f", "0", "0", "0", "0" >>)
ConfigValues == { [shopName |-> "Toko", themeColor |-> ThemeBlue],
                  [shopName |-> "Toko", themeColor |-> ThemeRed] }

\* themeColor values the pattern of hexToRgb rejects, and the empty one
ThemeMalformed == Str(<< "r", "e", "d" >>)
ThemeEmpty == Str(<< >>)
\* configurations over every kind of themeColor
ThemeConfigValues ==
  { [shopName |-> "Toko", themeColor |-> t] :
      t \in { ThemeBlue, ThemeRed, ThemeMalformed, ThemeEmpty } }

Kinds == { "config", "products", "blogs", "pages" }

\* what the store holds when the application starts
InitialDbs ==
  { [config |-> c,
     products |-> { [id |-> "p1", name |-> "Amplifier"] },
     blogs |-> BlogValues,
     pages |-> PageValues] :
    c \in { Null, [shopName |-> "Toko", themeColor |-> ThemeBlue] } }

\* upsert keyed by identifier; delete keyed by identifier
Upsert(coll, e) == { x \in coll : x.id # e.id } \cup { e }
Remove(coll, id) == { x \in coll : x.id # id }

\* the adapter's write operations and their arguments (a delete's argument
\* is the identifier, held in a record)
WriteOps ==
  { [op |-> "saveProduct", arg |-> p] : p \in ProductValues } \cup
  { [op |-> "deleteProduct", arg |-> [id |-> p.id]] : p \in ProductValues } \cup
  { [op |-> "saveBlog", arg |-> b] : b \in BlogValues } \cup
  { [op |-> "deleteBlog", arg |-> [id |-> b.id]] : b \in BlogValues } \cup
  { [op |-> "savePage", arg |-> p] : p \in PageValues } \cup
  { [op |-> "deletePage", arg |-> [id |-> p.id]] : p \in PageValues } \cup
  { [op |-> "saveSiteConfig", arg |-> c] : c \in ConfigValues }

\* onSaveConfig with every kind of themeColor
ThemeWriteOps ==
  { [op |-> "saveSiteConfig", arg |-> c] : c \in ThemeConfigValues }

\* the store after a write has been applied
ApplyWrite(d, w) ==
  CASE w.op = "saveProduct" -> [d EXCEPT !.products = Upsert(@, w.arg)]
    [] w.op = "deleteProduct" -> [d EXCEPT !.products = Remove(@, w.arg.id)]
    [] w.op = "saveBlog" -> [d EXCEPT !.blogs = Upsert(@, w.arg)]
    [] w.op = "deleteBlog" -> [d EXCEPT !.blogs = Remove(@, w.arg.id)]
    [] w.op = "savePage" -> [d EXCEPT !.pages = Upsert(@, w.arg)]
    [] w.op = "deletePage" -> [d EXCEPT !.pages = Remove(@, w.arg.id)]
    [] w.op = "saveSiteConfig" -> [d EXCEPT !.config = w.arg]

\* getSiteConfig / getProducts / getBlogs / getPages
ReadDb(d, k) ==
  CASE k = "config" -> d.config
    [] k = "products" -> d.products
    [] k = "blogs" -> d.blogs
    [] k = "pages" -> d.pages

-----------------------------------------------------------------------------
(* Auth service *)

AdminPassword == "rahasia"
Passwords == { "", AdminPassword, "salah" }
\* result.error of a failed login: absent (""), or a message
LoginErrors == { "", "Password salah" }

\* login(password): the success flag, and the error of a failure
LoginSucceeds(password) == password = AdminPassword

checkIsAuthenticated == authenticated

-----------------------------------------------------------------------------
(* Rendering, lines 178-311 *)

\* a JS value used as a condition
Truthy(v) == v # Null

\* the gate without its test of loading
Gate_ConfigOnly(ld, cfg) == ~Truthy(cfg)

\* the gate without its test of config
Gate_LoadingOnly(ld, cfg) == ld

\* the loading gate, line 178
Gate(ld, cfg) == ld \/ ~Truthy(cfg)

\* renderContent without the authentication guard of line 225
renderContent_NoGuard(v, auth, sp, sb, sg) ==
  CASE v = "ADMIN_LOGIN" -> "AdminLogin"
    [] v = "ADMIN_DASHBOARD" -> "AdminDashboard"
    [] v = "PRODUCT_DETAIL" -> IF Truthy(sp) THEN "ProductDetail" ELSE "Shop"
    [] v = "SHOP" -> "Shop"
    [] v = "BLOG_DETAIL" -> IF Truthy(sb) THEN "BlogDetail" ELSE "EmptyDiv"
    [] v = "BLOG" -> "Blog"
    [] v = "DYNAMIC_PAGE" -> IF Truthy(sg) THEN "DynamicPage" ELSE "Null"
    [] OTHER -> "Home"

\* renderContent without the null check of line 245
renderContent_NoFallback(v, auth, sp, sb, sg) ==
  CASE v = "ADMIN_LOGIN" -> "AdminLogin"
    [] v = "ADMIN_DASHBOARD" -> IF ~auth THEN "Null" ELSE "AdminDashboard"
    [] v = "PRODUCT_DETAIL" -> "ProductDetail"
    [] v = "SHOP" -> "Shop"
    [] v = "BLOG_DETAIL" -> IF Truthy(sb) THEN "BlogDetail" ELSE "EmptyDiv"
    [] v = "BLOG" -> "Blog"
    [] v = "DYNAMIC_PAGE" -> IF Truthy(sg) THEN "DynamicPage" ELSE "Null"
    [] OTHER -> "Home"

\* renderContent, lines 198-300: the renderer chosen for a view
renderContent(v, auth, sp, sb, sg) ==
  CASE v = "ADMIN_LOGIN" -> "AdminLogin"
    [] v = "ADMIN_DASHBOARD" -> IF ~auth THEN "Null" ELSE "AdminDashboard"
    [] v = "PRODUCT_DETAIL" -> IF Truthy(sp) THEN "ProductDetail" ELSE "Shop"
    [] v = "SHOP" -> "Shop"
    [] v = "BLOG_DETAIL" -> IF Truthy(sb) THEN "BlogDetail" ELSE "EmptyDiv"
    [] v = "BLOG" -> "Blog"
    [] v = "DYNAMIC_PAGE" -> IF Truthy(sg) THEN "DynamicPage" ELSE "Null"
    [] OTHER -> "Home"

\* what App returns, lines 178-311
Render(ld, cfg, v, auth, sp, sb, sg) ==
  IF Gate(ld, cfg) THEN "Loading" ELSE renderContent(v, auth, sp, sb, sg)

\* the state after the render that follows an update
Rendered ==
  displayed' = Render(loading', config', view', authenticated',
                      selectedProduct', selectedBlog', selectedPage')

\* line 225 has called setView(ADMIN_LOGIN) and the re-render is due
RedirectPending ==
  ~Gate(loading, config) /\ view = "ADMIN_DASHBOARD" /\ ~checkIsAuthenticated

\* Navbar, Footer and the floating button are shown, lines 304-311
ChromeShown ==
  displayed # "Loading" /\ view \notin { "ADMIN_DASHBOARD", "ADMIN_LOGIN" }

\* no synchronous code of the App is in the middle of running
Idle == pc = "mounted" /\ storing = Null /\ ~RedirectPending

-----------------------------------------------------------------------------
(* groups of variables *)

dataVars == << products, blogs, pages, config >>
selVars == << selectedProduct, selectedBlog, selectedPage >>
loginVars == << loginPassword, loginError, showPassword >>
darkVars == << isDarkMode, savedTheme, rootDark >>
envVars == << urlPage, prefersDark, hexColor >>
asyncVars == << storing, fetches, writes, nWrites, db, unhandled >>

-----------------------------------------------------------------------------
(* Initial state: the useState initialisers and the first render *)

UrlPages == { "none", "admin", "shop" }
SavedThemes == { "none", "dark", "light" }

InitApp ==
  /\ loading = TRUE
  /\ view = "HOME"
  /\ products = {} /\ blogs = {} /\ pages = {}
  /\ config = Null
  /\ selectedProduct = Null /\ selectedBlog = Null /\ selectedPage = Null
  /\ isDarkMode = FALSE
  /\ loginPassword = "" /\ loginError = "" /\ showPassword = FALSE
  /\ pc = "init"
  /\ displayed = "Loading"
  /\ storing = Null
  /\ fetches = {} /\ writes = {} /\ nWrites = 0
  /\ unhandled = FALSE
  /\ rootDark = FALSE
  /\ style = << >>

\* the environment the application starts in: every input over its whole
\* range, the others at their default
DefaultDb == CHOOSE d \in InitialDbs : d.config # Null
InitialEnvs ==
  { [db |-> d, auth |-> FALSE, url |-> "none", saved |-> "none", dark |-> FALSE] :
      d \in InitialDbs } \cup
  { [db |-> DefaultDb, auth |-> a, url |-> u, saved |-> "none", dark |-> FALSE] :
      a \in BOOLEAN, u \in UrlPages } \cup
  { [db |-> DefaultDb, auth |-> FALSE, url |-> "none", saved |-> t, dark |-> m] :
      t \in SavedThemes, m \in BOOLEAN }

Init ==
  /\ InitApp
  /\ \E e \in InitialEnvs :
       /\ db = e.db
       /\ authenticated = e.auth
       /\ urlPage = e.url
       /\ savedTheme = e.saved
       /\ prefersDark = e.dark
  /\ hexColor = ThemeBlue

-----------------------------------------------------------------------------
(* fetchData, lines 89-102 *)

\* a fetchData call at its await: which reads have resolved, and with what
NewFetch(id) ==
  [id |-> id, got |-> {},
   c |-> Null, p |-> {}, b |-> {}, pg |-> {}]

\* lines 90-96: setLoading(true) and the four reads issued
fetchData(id) ==
  /\ loading' = TRUE
  /\ fetches' = fetches \cup { NewFetch(id) }

\* the store answers one read of a fetch with its contents at that moment
ServeRead(f, k) ==
  CASE k = "config" -> [f EXCEPT !.got = @ \cup {k}, !.c = ReadDb(db, k)]
    [] k = "products" -> [f EXCEPT !.got = @ \cup {k}, !.p = ReadDb(db, k)]
    [] k = "blogs" -> [f EXCEPT !.got = @ \cup {k}, !.b = ReadDb(db, k)]
    [] k = "pages" -> [f EXCEPT !.got = @ \cup {k}, !.pg = ReadDb(db, k)]

ReadResolve(f, k) ==
  /\ Idle
  /\ f \in fetches /\ k \in Kinds \ f.got
  /\ fetches' = (fetches \ {f}) \cup { ServeRead(f, k) }
  /\ UNCHANGED << loading, view, dataVars, selVars, loginVars, darkVars,
                  envVars, pc, displayed, storing, writes, nWrites, db, unhandled,
                  authenticated, style >>

\* one read rejects: Promise.all rejects, the continuation never runs
ReadReject(f, k) ==
  /\ Idle
  /\ f \in fetches /\ k \in Kinds \ f.got
  /\ fetches' = fetches \ {f}
  /\ unhandled' = TRUE
  /\ UNCHANGED << loading, view, dataVars, selVars, loginVars, darkVars,
                  envVars, pc, displayed, storing, writes, nWrites, db,
                  authenticated, style >>

\* the config effect, lines 119-121, run for a config just stored
ConfigEffect(st, c) ==
  IF Truthy(c) /\ TruthyValue(c.themeColor)
    THEN applyTheme(st, c.themeColor) ELSE st

\* the continuation run although some read has not resolved
FetchStoreBatched_Partial(f) ==
  /\ Idle
  /\ f \in fetches /\ f.got # {}
  /\ fetches' = fetches \ {f}
  /\ config' = f.c
  /\ products' = f.p
  /\ blogs' = f.b
  /\ pages' = f.pg
  /\ loading' = FALSE
  /\ style' = ConfigEffect(style, f.c)
  /\ UNCHANGED << view, selVars, loginVars, darkVars, envVars, pc, storing,
                  writes, nWrites, db, unhandled, authenticated >>
  /\ Rendered

\* lines 97-101 in one batch (automatic batching): one render at the end
FetchStoreBatched(f) ==
  /\ Idle
  /\ f \in fetches /\ f.got = Kinds
  /\ fetches' = fetches \ {f}
  /\ config' = f.c
  /\ products' = f.p
  /\ blogs' = f.b
  /\ pages' = f.pg
  /\ loading' = FALSE
  /\ style' = ConfigEffect(style, f.c)
  /\ UNCHANGED << view, selVars, loginVars, darkVars, envVars, pc, storing,
                  writes, nWrites, db, unhandled, authenticated >>
  /\ Rendered

\* lines 97-101 without batching: every setter re-renders at once.
\* Line 97, setConfig(c)
FetchStoreBegin(f) ==
  /\ Idle
  /\ f \in fetches /\ f.got = Kinds
  /\ fetches' = fetches \ {f}
  /\ config' = f.c
  /\ style' = ConfigEffect(style, f.c)
  /\ storing' = [f EXCEPT !.got = { "config" }]
  /\ UNCHANGED << loading, view, products, blogs, pages, selVars, loginVars,
                  darkVars, envVars, pc, writes, nWrites, db, unhandled, authenticated >>
  /\ Rendered

\* lines 98-101, one setter at a time
FetchStoreStep ==
  /\ storing # Null /\ ~RedirectPending
  /\ \/ /\ storing.got = { "config" }
        /\ products' = storing.p
        /\ storing' = [storing EXCEPT !.got = @ \cup { "products" }]
        /\ UNCHANGED << blogs, pages, loading >>
     \/ /\ storing.got = { "config", "products" }
        /\ blogs' = storing.b
        /\ storing' = [storing EXCEPT !.got = @ \cup { "blogs" }]
        /\ UNCHANGED << products, pages, loading >>
     \/ /\ storing.got = { "config", "products", "blogs" }
        /\ pages' = storing.pg
        /\ storing' = [storing EXCEPT !.got = Kinds]
        /\ UNCHANGED << products, blogs, loading >>
     \/ /\ storing.got = Kinds
        /\ loading' = FALSE
        /\ storing' = Null
        /\ UNCHANGED << products, blogs, pages >>
  /\ UNCHANGED << view, config, selVars, loginVars, darkVars, envVars, pc,
                  fetches, writes, nWrites, db, unhandled, authenticated, style >>
  /\ Rendered

-----------------------------------------------------------------------------
(* Mount effect, lines 104-117 *)

\* the query parameter tested for presence only
MountView_AnyPage(page, v) == IF page # "none" THEN "ADMIN_LOGIN" ELSE v

\* lines 107-110: the view after the check of the query parameter
MountView(page, v) == IF page = "admin" THEN "ADMIN_LOGIN" ELSE v

Mount ==
  /\ pc = "init"
  /\ pc' = "mounted"
  /\ fetchData(0)
  /\ view' = MountView(urlPage, view)
  /\ IF savedTheme = "dark" \/ (savedTheme = "none" /\ prefersDark)
       THEN isDarkMode' = TRUE /\ rootDark' = TRUE
       ELSE UNCHANGED << isDarkMode, rootDark >>
  /\ UNCHANGED << dataVars, selVars, loginVars, savedTheme, envVars, storing,
                  writes, nWrites, db, unhandled, authenticated, style >>
  /\ Rendered

-----------------------------------------------------------------------------
(* Navigation and selection, lines 219, 248-250, 256, 265, 280, 296, 306-308 *)

\* the re-render after line 225 has called setView(ADMIN_LOGIN)
RenderGuardRedirect ==
  /\ pc = "mounted" /\ storing = Null
  /\ RedirectPending
  /\ view' = "ADMIN_LOGIN"
  /\ UNCHANGED << loading, dataVars, selVars, loginVars, darkVars, envVars,
                  pc, asyncVars, authenticated, style >>
  /\ Rendered

\* setView as handed to Navbar, Footer and Home
SetView(v) ==
  /\ Idle
  /\ ChromeShown
  /\ v \in PageView
  /\ view' = v
  /\ UNCHANGED << loading, dataVars, selVars, loginVars, darkVars, envVars,
                  pc, asyncVars, authenticated, style >>
  /\ Rendered

\* selectProduct of Shop (lines 250, 256) and Home (line 296)
SelectProduct(p) ==
  /\ Idle
  /\ displayed \in { "Shop", "Home" }
  /\ p \in products
  /\ selectedProduct' = p
  /\ view' = "PRODUCT_DETAIL"
  /\ UNCHANGED << loading, dataVars, selectedBlog, selectedPage, loginVars,
                  darkVars, envVars, pc, asyncVars, authenticated, style >>
  /\ Rendered

\* the blog card of the Blog list (line 280) and selectBlog of Home (line 296)
SelectBlog(b) ==
  /\ Idle
  /\ displayed \in { "Blog", "Home" }
  /\ b \in blogs
  /\ selectedBlog' = b
  /\ view' = "BLOG_DETAIL"
  /\ UNCHANGED << loading, dataVars, selectedProduct, selectedPage, loginVars,
                  darkVars, envVars, pc, asyncVars, authenticated, style >>
  /\ Rendered

\* onPageClick of Navbar and Footer, lines 306 and 308
PageClick(g) ==
  /\ Idle
  /\ ChromeShown
  /\ g \in pages
  /\ selectedPage' = g
  /\ view' = "DYNAMIC_PAGE"
  /\ UNCHANGED << loading, dataVars, selectedProduct, selectedBlog, loginVars,
                  darkVars, envVars, pc, asyncVars, authenticated, style >>
  /\ Rendered

\* onBack that also drops the selection
ProductBack_Clearing ==
  /\ Idle
  /\ displayed = "ProductDetail"
  /\ view' = "SHOP"
  /\ selectedProduct' = Null
  /\ UNCHANGED << loading, dataVars, selectedBlog, selectedPage, loginVars,
                  darkVars, envVars, pc, asyncVars, authenticated, style >>
  /\ Rendered

\* onBack of ProductDetail, line 248
ProductBack ==
  /\ Idle
  /\ displayed = "ProductDetail"
  /\ view' = "SHOP"
  /\ UNCHANGED << loading, dataVars, selVars, loginVars, darkVars, envVars,
                  pc, asyncVars, authenticated, style >>
  /\ Rendered

\* the back button of the blog detail, line 265
BlogBack ==
  /\ Idle
  /\ displayed = "BlogDetail"
  /\ view' = "BLOG"
  /\ UNCHANGED << loading, dataVars, selVars, loginVars, darkVars, envVars,
                  pc, asyncVars, authenticated, style >>
  /\ Rendered

\* toggleTheme persisting 'dark' in both branches
toggleTheme_AlwaysDark ==
  /\ Idle
  /\ ChromeShown
  /\ IF isDarkMode
       THEN rootDark' = FALSE /\ savedTheme' = "dark" /\ isDarkMode' = FALSE
       ELSE rootDark' = TRUE /\ savedTheme' = "dark" /\ isDarkMode' = TRUE
  /\ UNCHANGED << loading, view, dataVars, selVars, loginVars, envVars, pc,
                  asyncVars, authenticated, style >>
  /\ Rendered

\* toggleTheme, lines 154-164, reached from the Navbar
toggleTheme ==
  /\ Idle
  /\ ChromeShown
  /\ IF isDarkMode
       THEN rootDark' = FALSE /\ savedTheme' = "light" /\ isDarkMode' = FALSE
       ELSE rootDark' = TRUE /\ savedTheme' = "dark" /\ isDarkMode' = TRUE
  /\ UNCHANGED << loading, view, dataVars, selVars, loginVars, envVars, pc,
                  asyncVars, authenticated, style >>
  /\ Rendered

-----------------------------------------------------------------------------
(* Admin login, lines 166-176 and 200-222 *)

\* the password input, line 213
TypePassword(pw) ==
  /\ Idle
  /\ displayed = "AdminLogin"
  /\ pw \in Passwords
  /\ loginPassword' = pw
  /\ UNCHANGED << loading, view, dataVars, selVars, loginError, showPassword,
                  darkVars, envVars, pc, asyncVars, authenticated, style >>
  /\ Rendered

\* the eye button, line 214
ToggleShowPassword ==
  /\ Idle
  /\ displayed = "AdminLogin"
  /\ showPassword' = ~showPassword
  /\ UNCHANGED << loading, view, dataVars, selVars, loginPassword, loginError,
                  darkVars, envVars, pc, asyncVars, authenticated, style >>
  /\ Rendered

\* the success branch without setLoginPassword('')
LoginSuccess_KeepPassword ==
  /\ Idle
  /\ displayed = "AdminLogin"
  /\ LoginSucceeds(loginPassword)
  /\ authenticated' = TRUE
  /\ loginError' = ""
  /\ view' = "ADMIN_DASHBOARD"
  /\ UNCHANGED << loading, dataVars, selVars, loginPassword, showPassword,
                  darkVars, envVars, pc, asyncVars, style >>
  /\ Rendered

\* handleLoginSubmit when login() reports success
LoginSuccess ==
  /\ Idle
  /\ displayed = "AdminLogin"
  /\ LoginSucceeds(loginPassword)
  /\ authenticated' = TRUE
  /\ loginPassword' = ""
  /\ loginError' = ""
  /\ view' = "ADMIN_DASHBOARD"
  /\ UNCHANGED << loading, dataVars, selVars, showPassword, darkVars, envVars,
                  pc, asyncVars, style >>
  /\ Rendered

\* the message without its default
LoginMessage_NoDefault(err) == err

\* the message shown for a failed login, line 174
LoginMessage(err) == IF err # "" THEN err ELSE "Login gagal"

\* handleLoginSubmit when login() reports failure, with result.error = err
LoginFailure(err) ==
  /\ Idle
  /\ displayed = "AdminLogin"
  /\ ~LoginSucceeds(loginPassword)
  /\ err \in LoginErrors
  /\ loginError' = LoginMessage(err)
  /\ UNCHANGED << loading, view, dataVars, selVars, loginPassword,
                  showPassword, darkVars, envVars, pc, asyncVars,
                  authenticated, style >>
  /\ Rendered

\* the back button of the login form, line 219
LoginBack ==
  /\ Idle
  /\ displayed = "AdminLogin"
  /\ view' = "HOME"
  /\ UNCHANGED << loading, dataVars, selVars, loginVars, darkVars, envVars,
                  pc, asyncVars, authenticated, style >>
  /\ Rendered

-----------------------------------------------------------------------------
(* Admin dashboard, lines 190-196 and 224-242 *)

\* onLogout without its call of logout()
Logout_KeepSession ==
  /\ Idle
  /\ displayed = "AdminDashboard"
  /\ view' = "HOME"
  /\ UNCHANGED << loading, dataVars, selVars, loginVars, darkVars, envVars,
                  pc, asyncVars, authenticated, style >>
  /\ Rendered

\* onLogout, line 234
Logout ==
  /\ Idle
  /\ displayed = "AdminDashboard"
  /\ authenticated' = FALSE
  /\ view' = "HOME"
  /\ UNCHANGED << loading, dataVars, selVars, loginVars, darkVars, envVars,
                  pc, asyncVars, style >>
  /\ Rendered

\* onSaveProduct .. onSaveConfig up to their await: the write is issued
AdminWrite(w, limit) ==
  /\ Idle
  /\ displayed = "AdminDashboard"
  /\ nWrites < limit
  /\ w \in WriteOps \cup ThemeWriteOps
  /\ nWrites' = nWrites + 1
  /\ writes' = writes \cup
       { [id |-> nWrites + 1, op |-> w.op, arg |-> w.arg, applied |-> FALSE] }
  /\ UNCHANGED << loading, view, dataVars, selVars, loginVars, darkVars,
                  envVars, pc, displayed, storing, fetches, db, unhandled,
                  authenticated, style >>

\* the store applies a write
WriteApply(w) ==
  /\ Idle
  /\ w \in writes /\ ~w.applied
  /\ db' = ApplyWrite(db, w)
  /\ writes' = (writes \ {w}) \cup { [w EXCEPT !.applied = TRUE] }
  /\ UNCHANGED << loading, view, dataVars, selVars, loginVars, darkVars,
                  envVars, pc, displayed, storing, fetches, nWrites, unhandled,
                  authenticated, style >>

\* the write's promise resolves and the handler goes on to fetchData()
WriteResolve(w) ==
  /\ Idle
  /\ w \in writes /\ w.applied
  /\ writes' = writes \ {w}
  /\ fetchData(w.id)
  /\ UNCHANGED << view, dataVars, selVars, loginVars, darkVars, envVars, pc,
                  storing, nWrites, db, unhandled, authenticated, style >>
  /\ Rendered

\* the handler going on to fetchData() although its write has rejected
WriteReject_Reloads(w) ==
  /\ Idle
  /\ w \in writes
  /\ writes' = writes \ {w}
  /\ unhandled' = TRUE
  /\ fetchData(w.id)
  /\ UNCHANGED << view, dataVars, selVars, loginVars, darkVars, envVars, pc,
                  storing, nWrites, db, authenticated, style >>
  /\ Rendered

\* the write's promise rejects: the handler ends at its await
WriteReject(w) ==
  /\ Idle
  /\ w \in writes
  /\ writes' = writes \ {w}
  /\ unhandled' = TRUE
  /\ UNCHANGED << loading, view, dataVars, selVars, loginVars, darkVars,
                  envVars, pc, displayed, storing, fetches, nWrites, db,
                  authenticated, style >>

-----------------------------------------------------------------------------

Next ==
  \/ Mount
  \/ \E f \in fetches, k \in Kinds : ReadResolve(f, k)
  \/ \E f \in fetches, k \in Kinds : ReadReject(f, k)
  \/ \E f \in fetches : FetchStoreBatched(f)
  \/ \E f \in fetches : FetchStoreBegin(f)
  \/ FetchStoreStep
  \/ RenderGuardRedirect
  \/ \E v \in PageView : SetView(v)
  \/ \E p \in products : SelectProduct(p)
  \/ \E b \in blogs : SelectBlog(b)
  \/ \E g \in pages : PageClick(g)
  \/ ProductBack
  \/ BlogBack
  \/ toggleTheme
  \/ \E pw \in Passwords : TypePassword(pw)
  \/ ToggleShowPassword
  \/ LoginSuccess
  \/ \E err \in LoginErrors : LoginFailure(err)
  \/ LoginBack
  \/ Logout
  \/ \E w \in WriteOps : AdminWrite(w, MaxWrites)
  \/ \E w \in writes : WriteApply(w)
  \/ \E w \in writes : WriteResolve(w)
  \/ \E w \in writes : WriteReject(w)

Spec == Init /\ [][Next]_vars

-----------------------------------------------------------------------------
(* The administrator at work: the dashboard is open after a successful      *)
(* login (a state Spec reaches), and the administrator stays on it.         *)

AdminReady ==
  /\ loading = FALSE
  /\ view = "ADMIN_DASHBOARD"
  /\ config = DefaultDb.config
  /\ products = DefaultDb.products
  /\ blogs = DefaultDb.blogs
  /\ pages = DefaultDb.pages
  /\ selectedProduct = Null /\ selectedBlog = Null /\ selectedPage = Null
  /\ isDarkMode = FALSE
  /\ loginPassword = "" /\ loginError = "" /\ showPassword = FALSE
  /\ pc = "mounted"
  /\ displayed = "AdminDashboard"
  /\ storing = Null
  /\ fetches = {} /\ writes = {} /\ nWrites = 0
  /\ unhandled = FALSE
  /\ db = DefaultDb
  /\ authenticated = TRUE
  /\ urlPage = "admin"
  /\ savedTheme = "none" /\ prefersDark = FALSE /\ rootDark = FALSE
  /\ style = applyTheme(<< >>, ThemeBlue)
  /\ hexColor = ThemeBlue

NextAdmin ==
  \/ \E w \in WriteOps : AdminWrite(w, MaxAdminWrites)
  \/ \E w \in writes : WriteApply(w)
  \/ \E w \in writes : WriteResolve(w)
  \/ \E w \in writes : WriteReject(w)
  \/ \E f \in fetches, k \in Kinds : ReadResolve(f, k)
  \/ \E f \in fetches, k \in Kinds : ReadReject(f, k)
  \/ \E f \in fetches : FetchStoreBatched(f)
  \/ \E f \in fetches : FetchStoreBegin(f)
  \/ FetchStoreStep

SpecAdmin == AdminReady /\ [][NextAdmin]_vars

-----------------------------------------------------------------------------
(* The theme of the configuration: the store starts with any kind of         *)
(* themeColor, the application loads, and an authenticated administrator     *)
(* opens the dashboard and saves configurations.                             *)

InitConfig ==
  /\ InitApp
  /\ \E c \in ThemeConfigValues : db = [DefaultDb EXCEPT !.config = c]
  /\ authenticated = TRUE
  /\ urlPage = "none"
  /\ savedTheme = "none"
  /\ prefersDark = FALSE
  /\ hexColor = ThemeBlue

NextConfig ==
  \/ Mount
  \/ SetView("ADMIN_DASHBOARD")
  \/ \E w \in ThemeWriteOps : AdminWrite(w, MaxAdminWrites)
  \/ \E w \in writes : WriteApply(w)
  \/ \E w \in writes : WriteResolve(w)
  \/ \E w \in writes : WriteReject(w)
  \/ \E f \in fetches, k \in Kinds : ReadResolve(f, k)
  \/ \E f \in fetches, k \in Kinds : ReadReject(f, k)
  \/ \E f \in fetches : FetchStoreBatched(f)
  \/ \E f \in fetches : FetchStoreBegin(f)
  \/ FetchStoreStep

SpecConfig == InitConfig /\ [][NextConfig]_vars

-----------------------------------------------------------------------------
(* The theme engine on its own: an argument is drawn, applyTheme runs once. *)

SampleGroups ==
  { << "0", "0" >>, << "f", "f" >>, << "F", "F" >>, << "2", "5" >>,
    << "6", "3" >>, << "E", "B" >>, << "e", "b" >>, << "7", "f" >>,
    << "8", "0" >>, << "0", "A" >> }

\* every two-digit group 00 .. ff
AllGroups == { << HexChars[i], HexChars[j] >> : i, j \in 1..16 }

\* six hex digits with an optional leading '#', in either letter case; the
\* greys #000000 .. #ffffff give every channel each of its 256 values
ValidHexInputs ==
  { Str(pre \o r \o g \o b) :
      pre \in { << >>, << "#" >> },
      r \in SampleGroups, g \in SampleGroups, b \in SampleGroups } \cup
  { Str(<< "#" >> \o g \o g \o g) : g \in AllGroups }

\* inputs the pattern rejects, and values that are not strings
InvalidHexInputs ==
  { Str(<< >>), Str(<< "#" >>), Str(<< "#", "f", "f", "f" >>),
    Str(<< "r", "e", "d" >>),
    Str(<< "#", "2", "5", "6", "3", "E", "G" >>),
    Str(<< "#", "2", "5", "6", "3", "E", "B", "0" >>),
    Str(<< "#", "f", "f", "0", "0", "0", "0", "0" >>),
    Str(<< "f", "f", "0", "0", "0", "0", "z" >>),
    Str(<< "#", "#", "2", "5", "6", "3", "E", "B" >>),
    Str(<< "2", "5", "6", "3", "E", "B", "#" >>),
    Str(<< " ", "2", "5", "6", "3", "E", "B" >>) } \cup NotAString

InitTheme ==
  /\ InitApp
  /\ db = DefaultDb
  /\ authenticated = FALSE
  /\ urlPage = "none"
  /\ savedTheme = "none"
  /\ prefersDark = FALSE
  /\ hexColor \in ValidHexInputs \cup InvalidHexInputs

\* applyTheme(hexColor), lines 54-65
ApplyThemeCall ==
  /\ style = << >>
  /\ style' = applyTheme(style, hexColor)
  /\ UNCHANGED << loading, view, dataVars, selVars, loginVars, darkVars,
                  envVars, pc, displayed, asyncVars, authenticated >>

NextTheme == ApplyThemeCall

SpecTheme == InitTheme /\ [][NextTheme]_vars

-----------------------------------------------------------------------------
(* Properties *)

ShadeKeys == { 50, 100, 200, 300, 400, 500, 600, 700, 800, 900, 950 }

DetailViews == { "PRODUCT_DETAIL", "BLOG_DETAIL", "DYNAMIC_PAGE" }

\* no backend call is outstanding and no continuation is running
Quiescent == fetches = {} /\ writes = {} /\ storing = Null

\* the initial fetchData call has not yet finished storing its results
InitialFetchOutstanding ==
  \/ pc = "init"
  \/ \E f \in fetches : f.id = 0
  \/ storing # Null /\ storing.id = 0

\* C1: the AdminDashboard renderer is displayed only when checkIsAuthenticated()
\* is true; when renderContent runs with view = ADMIN_DASHBOARD and no
\* authenticated session nothing is rendered, and the next step sets the view
\* to ADMIN_LOGIN.
C1_DashboardGuard ==
  /\ [](displayed = "AdminDashboard" => checkIsAuthenticated)
  /\ [](RedirectPending => displayed = "Null")
  /\ [][RedirectPending =>
         (view' = "ADMIN_LOGIN" /\ displayed' = "AdminLogin")]_vars

\* the guard of line 225 has just run on an unauthenticated session
C1_Witness ==
  RedirectPending /\ displayed = "Null" /\ config # Null /\ products # {}

\* C2 (as claimed): once every backend call has resolved (none rejected),
\* the four in-memory collections equal the contents of the store.
C2_CollectionsMatchStore ==
  (Quiescent /\ ~unhandled /\ nWrites > 0) =>
    /\ config = db.config
    /\ products = db.products
    /\ blogs = db.blogs
    /\ pages = db.pages

\* C3: as long as the initial fetchData call is outstanding (not mounted, some
\* read unresolved, or only part of its results stored) the loading indicator
\* is what is displayed.
C3_LoadingUntilInitialFetchStored ==
  InitialFetchOutstanding => displayed = "Loading"

\* config and products of the initial fetch are stored, blogs and pages not yet
C3_Witness ==
  /\ storing # Null /\ storing.id = 0
  /\ storing.got = { "config", "products" }
  /\ config # Null /\ products # {} /\ blogs = {}
  /\ displayed = "Loading"

\* C4 (as claimed): the reads of a reload are issued only after the write of
\* its handler has resolved, and as long as a reload is in flight loading is
\* true and no page content is displayed.
C4_LoadingWhileReloading ==
  /\ \A f \in fetches : \A w \in writes : w.id # f.id
  /\ (fetches # {} \/ storing # Null) =>
       (loading /\ displayed = "Loading")

\* C5: a login submit for which login() fails leaves the view at ADMIN_LOGIN,
\* sets loginError to result.error, or to 'Login gagal' when none is given,
\* and changes nothing else.
C5_FailedLogin ==
  [][\A err \in LoginErrors :
       LoginFailure(err) =>
         /\ view = "ADMIN_LOGIN" /\ view' = "ADMIN_LOGIN"
         /\ loginError' # ""
         /\ loginError' = (IF err = "" THEN "Login gagal" ELSE err)
         /\ UNCHANGED << loading, dataVars, selVars, loginPassword,
                         showPassword, darkVars, envVars, pc, displayed,
                         asyncVars, authenticated, style >>]_vars

\* a wrong password was submitted and login() gave no message
C5_Witness ==
  /\ view = "ADMIN_LOGIN" /\ displayed = "AdminLogin"
  /\ loginPassword = "salah" /\ loginError = "Login gagal"
  /\ ~authenticated

\* C6: whenever anything but the loading indicator is displayed, config is
\* non-null; a getSiteConfig that resolved to null keeps the indicator up.
C6_ConfigBeforeRender ==
  displayed # "Loading" => config # Null

\* the initial fetch has stored a null config and loading is false
C6_Witness ==
  /\ pc = "mounted" /\ Quiescent /\ ~unhandled
  /\ ~loading /\ config = Null /\ products # {}
  /\ displayed = "Loading"

\* C7: the first thing displayed after the loading indicator of the initial
\* load is AdminLogin if the query parameter page is 'admin', and Home
\* otherwise.
C7_FirstView ==
  [][(InitialFetchOutstanding /\ displayed = "Loading"
        /\ displayed' # "Loading") =>
       /\ (displayed' = "AdminLogin") <=> (urlPage = "admin")
       /\ (displayed' = "Home") <=> (urlPage # "admin")
       /\ view' = (IF urlPage = "admin" THEN "ADMIN_LOGIN" ELSE "HOME")]_vars

\* the page came up on the login form for ?page=admin
C7_Witness ==
  /\ urlPage = "admin" /\ displayed = "AdminLogin" /\ view = "ADMIN_LOGIN"
  /\ Quiescent /\ nWrites = 0 /\ loginPassword = "" /\ loginError = ""

\* C8: a detail view with a null selection renders its fallback (the Shop
\* list, an empty node, nothing), and a detail renderer is displayed only with
\* a non-null selection.
C8_DetailFallback ==
  /\ ~Gate(loading, config) =>
       /\ (view = "PRODUCT_DETAIL" /\ selectedProduct = Null)
            => displayed = "Shop"
       /\ (view = "BLOG_DETAIL" /\ selectedBlog = Null)
            => displayed = "EmptyDiv"
       /\ (view = "DYNAMIC_PAGE" /\ selectedPage = Null)
            => displayed = "Null"
  /\ displayed = "ProductDetail" => selectedProduct # Null
  /\ displayed = "BlogDetail" => selectedBlog # Null
  /\ displayed = "DynamicPage" => selectedPage # Null

\* PRODUCT_DETAIL was entered with no product selected
C8_Witness ==
  /\ view = "PRODUCT_DETAIL" /\ selectedProduct = Null
  /\ displayed = "Shop"

\* C9 (as claimed): a transition from a detail view to a non-detail view
\* leaves the selection of that detail view without the entity it held.
C9_SelectionsCleared ==
  [][view' \notin DetailViews =>
       /\ (view = "PRODUCT_DETAIL" /\ selectedProduct # Null)
            => selectedProduct' # selectedProduct
       /\ (view = "BLOG_DETAIL" /\ selectedBlog # Null)
            => selectedBlog' # selectedBlog
       /\ (view = "DYNAMIC_PAGE" /\ selectedPage # Null)
            => selectedPage' # selectedPage]_vars

\* C9 (amended): a transition from a detail view to a non-detail view leaves
\* the three selections as they were, a selection once made is never null
\* again, and a detail view entered with its selection set shows that entity.
C9_SelectionsKept ==
  /\ [][(view \in DetailViews /\ view' \notin DetailViews) =>
          UNCHANGED selVars]_vars
  /\ [][/\ selectedProduct # Null => selectedProduct' # Null
        /\ selectedBlog # Null => selectedBlog' # Null
        /\ selectedPage # Null => selectedPage' # Null]_vars
  /\ [](~Gate(loading, config) =>
          /\ (view = "PRODUCT_DETAIL" /\ selectedProduct # Null)
               => displayed = "ProductDetail"
          /\ (view = "BLOG_DETAIL" /\ selectedBlog # Null)
               => displayed = "BlogDetail"
          /\ (view = "DYNAMIC_PAGE" /\ selectedPage # Null)
               => displayed = "DynamicPage")

\* the product detail was left for the shop and the product is still selected
C9_Witness ==
  view = "SHOP" /\ displayed = "Shop" /\ selectedProduct # Null

\* C10: for a valid six-digit hex argument applyTheme writes exactly the 11
\* shade keys, each a triple of integers in 0..255.
C10_PaletteWellFormed ==
  (style # << >> /\ hexColor \in ValidHexInputs) =>
    /\ DOMAIN style = ShadeKeys
    /\ \A key \in ShadeKeys :
         /\ Len(style[key]) = 3
         /\ \A i \in 1..3 : style[key][i] \in 0..255

\* applyTheme has run on ff0000, given without '#' and in lower case
C10_Witness ==
  /\ hexColor = ThemeRed
  /\ DOMAIN style = ShadeKeys
  /\ style[600] = << 255, 0, 0 >>

\* the characters 0-9, a-f and A-F
HexAlphabet ==
  { "0", "1", "2", "3", "4", "5", "6", "7", "8", "9",
    "a", "b", "c", "d", "e", "f", "A", "B", "C", "D", "E", "F" }

\* exactly six hex digits with an optional leading '#'
IsSixDigitHex(s) ==
  \/ Len(s) = 6 /\ \A i \in 1..6 : s[i] \in HexAlphabet
  \/ Len(s) = 7 /\ s[1] = "#" /\ \A i \in 2..7 : s[i] \in HexAlphabet

\* the argument is empty, not a string, or not a six-digit hex colour
InvalidArgument(hex) ==
  hex.t # "string" \/ hex.s = << >> \/ ~IsSixDigitHex(hex.s)

\* C11: for an argument that is empty, not a string, or not exactly six hex
\* digits with an optional leading '#', applyTheme completes and writes the
\* palette it writes for #2563EB, whose base is {37, 99, 235}.
C11_InvalidFallsBackToDefault ==
  /\ \A hex \in InvalidHexInputs : InvalidArgument(hex)
  /\ (style # << >> /\ InvalidArgument(hexColor)) =>
       /\ DOMAIN style = ShadeKeys
       /\ style = applyTheme(<< >>, ThemeBlue)
       /\ style[600] = << 37, 99, 235 >>
       /\ style[950] = << 15, 40, 94 >>

\* applyTheme has run on a seven-digit string, which the pattern rejects
C11_Witness ==
  /\ hexColor = Str(<< "#", "f", "f", "0", "0", "0", "0", "0" >>)
  /\ style # << >>
  /\ style[600] = << 37, 99, 235 >>

\* the value of a hex digit
HexDigitValue ==
  ("0" :> 0) @@ ("1" :> 1) @@ ("2" :> 2) @@ ("3" :> 3) @@ ("4" :> 4) @@
  ("5" :> 5) @@ ("6" :> 6) @@ ("7" :> 7) @@ ("8" :> 8) @@ ("9" :> 9) @@
  ("a" :> 10) @@ ("b" :> 11) @@ ("c" :> 12) @@ ("d" :> 13) @@ ("e" :> 14) @@
  ("f" :> 15) @@ ("A" :> 10) @@ ("B" :> 11) @@ ("C" :> 12) @@ ("D" :> 13) @@
  ("E" :> 14) @@ ("F" :> 15)

\* the three channels RR, GG, BB of a six-digit hex colour
BaseChannels(s) ==
  LET d == IF s[1] = "#" THEN Tail(s) ELSE s
  IN  [i \in 1..3 |->
         16 * HexDigitValue[d[2 * i - 1]] + HexDigitValue[d[2 * i]]]

\* v is the integer nearest to c * (1 - w) + target * w, the upper one of two
\* equally near, for w = w100 / 100
IsRoundedBlend(v, c, target, w100) ==
  LET x == c * (100 - w100) + target * w100
  IN  v \in 0..255 /\ x - 50 < 100 * v /\ 100 * v <= x + 50

\* the weights toward white and toward black, in hundredths
LighterWeights ==
  (50 :> 95) @@ (100 :> 90) @@ (200 :> 75) @@ (300 :> 60) @@ (400 :> 30) @@
  (500 :> 10)
DarkerWeights == (700 :> 10) @@ (800 :> 25) @@ (900 :> 40) @@ (950 :> 60)

\* C12: for a valid base colour shade 600 is the base, shades 50..500 are the
\* rounded blends toward white at 0.95/0.9/0.75/0.6/0.3/0.1, shades 700..950
\* the rounded blends toward black at 0.1/0.25/0.4/0.6, #2563EB gives
\* 600 = {37,99,235} and 950 = {15,40,94}, and a lighter key is in no channel
\* darker than a darker key.
C12_ShadesAreBlends ==
  /\ (style # << >> /\ ~InvalidArgument(hexColor)) =>
       LET base == BaseChannels(hexColor.s)
       IN  /\ style[600] = base
           /\ \A key \in DOMAIN LighterWeights : \A i \in 1..3 :
                IsRoundedBlend(style[key][i], base[i], 255, LighterWeights[key])
           /\ \A key \in DOMAIN DarkerWeights : \A i \in 1..3 :
                IsRoundedBlend(style[key][i], base[i], 0, DarkerWeights[key])
           /\ \A k1, k2 \in ShadeKeys : k1 < k2 =>
                \A i \in 1..3 : style[k1][i] >= style[k2][i]
  /\ (style # << >> /\ hexColor = ThemeBlue) =>
       (style[600] = << 37, 99, 235 >> /\ style[950] = << 15, 40, 94 >>)

\* applyTheme has run on #2563EB; shade 200 of its red channel is the half
\* 200.5 rounded up
C12_Witness ==
  /\ hexColor = ThemeBlue
  /\ style # << >>
  /\ style[950] = << 15, 40, 94 >>
  /\ style[200][1] = 201

\* C13 (as claimed): whenever a configuration is stored, the --brand-*
\* properties are the palette the theme engine derives from its themeColor,
\* the palette of the default colour when the themeColor is malformed or empty.
C13_StyleFollowsConfig ==
  config # Null => style = applyTheme(<< >>, config.themeColor)

\* C14: the view leaves ADMIN_LOGIN only for ADMIN_DASHBOARD, by a login
\* submit whose login() succeeds and which empties loginPassword and
\* loginError, or for HOME, by the back button of the form, which changes
\* nothing else; and a successful submit always ends on ADMIN_DASHBOARD.
C14_LoginFormExits ==
  /\ [][(view = "ADMIN_LOGIN" /\ view' # "ADMIN_LOGIN") =>
          /\ displayed = "AdminLogin"
          /\ \/ /\ view' = "ADMIN_DASHBOARD"
                /\ LoginSucceeds(loginPassword)
                /\ loginPassword' = "" /\ loginError' = ""
             \/ /\ view' = "HOME"
                /\ UNCHANGED << loginVars, authenticated >>]_vars
  /\ [][LoginSuccess =>
          /\ view = "ADMIN_LOGIN" /\ view' = "ADMIN_DASHBOARD"
          /\ loginPassword' = "" /\ loginError' = ""]_vars

\* a session that started unauthenticated (only those start with the dark
\* colour scheme preferred) is on the dashboard after a successful submit
C14_Witness ==
  /\ prefersDark /\ authenticated
  /\ view = "ADMIN_DASHBOARD" /\ displayed = "AdminDashboard"
  /\ loginPassword = "" /\ loginError = "" /\ showPassword

\* C15: a logout clears the authentication state and sets the view to HOME;
\* without authentication the AdminDashboard renderer is never displayed, the
\* state becomes authenticated again only by a login submit that succeeds,
\* and until then every entry into ADMIN_DASHBOARD renders nothing and is
\* followed by ADMIN_LOGIN.
C15_LogoutEndsSession ==
  /\ [][Logout =>
          /\ displayed = "AdminDashboard"
          /\ ~authenticated' /\ view' = "HOME" /\ displayed' = "Home"]_vars
  /\ [](~checkIsAuthenticated => displayed # "AdminDashboard")
  /\ [][(~checkIsAuthenticated /\ authenticated') =>
          (displayed = "AdminLogin" /\ LoginSucceeds(loginPassword))]_vars
  /\ [][(~checkIsAuthenticated /\ ~authenticated'
           /\ view' = "ADMIN_DASHBOARD") => displayed' = "Null"]_vars
  /\ [][(~checkIsAuthenticated /\ view = "ADMIN_DASHBOARD") =>
          (view' = "ADMIN_LOGIN" /\ displayed' = "AdminLogin")]_vars

\* after a save on the dashboard and a logout, ADMIN_DASHBOARD was entered
\* again: the guard has rendered nothing
C15_Witness ==
  /\ nWrites = 1 /\ ~authenticated
  /\ view = "ADMIN_DASHBOARD" /\ displayed = "Null"

\* the four slices hold the results of fetch f
HoldsResultsOf(f, c, p, b, pg) == c = f.c /\ p = f.p /\ b = f.b /\ pg = f.pg

\* C16: config, products, blogs and pages change only in the continuation of
\* a fetch whose four reads have all resolved, and that continuation stores
\* all four before it sets loading to false; a rejected read ends its fetch
\* with the four slices and loading untouched; the loading indicator goes
\* away only when some fetch sets loading to false, so after the initial
\* fetch has rejected it stays, over the initial empty state.
C16_FetchAllOrNothing ==
  /\ [][(dataVars' # dataVars) =>
          \/ \E f \in fetches : f.got = Kinds /\ f \notin fetches'
          \/ storing # Null]_vars
  /\ [][(loading /\ ~loading') =>
          \/ \E f \in fetches :
                /\ f.got = Kinds /\ f \notin fetches'
                /\ HoldsResultsOf(f, config', products', blogs', pages')
          \/ /\ storing # Null /\ storing.got = Kinds /\ storing' = Null
             /\ HoldsResultsOf(storing, config, products, blogs, pages)
             /\ UNCHANGED dataVars]_vars
  /\ [][\A f \in fetches : \A k \in Kinds :
          ReadReject(f, k) =>
            /\ UNCHANGED << dataVars, loading, displayed, storing >>
            /\ \A g \in fetches' : g.id # f.id]_vars
  /\ [][(displayed = "Loading" /\ displayed' # "Loading") =>
          (loading /\ ~loading')]_vars
  /\ []((unhandled /\ nWrites = 0) =>
          /\ loading /\ displayed = "Loading"
          /\ config = Null /\ products = {} /\ blogs = {} /\ pages = {})

\* a read of the initial fetch has rejected: nothing was stored and the
\* loading indicator stays
C16_Witness ==
  /\ pc = "mounted" /\ unhandled /\ nWrites = 0
  /\ fetches = {} /\ storing = Null
  /\ loading /\ displayed = "Loading" /\ config = Null /\ products = {}

\* what the claim calls the application state, and what is displayed
AppState == << dataVars, view, selVars, loading, displayed >>

\* C17: an admin handler whose write rejects changes nothing of the four
\* collections, the view, the selections and the loading flag, neither when
\* it is invoked nor when the write rejects, and issues no reload: a fetch
\* is begun only by the mount effect or by a handler whose write has resolved.
C17_RejectedWriteChangesNothing ==
  /\ [][nWrites' # nWrites => UNCHANGED << AppState, fetches, storing >>]_vars
  /\ [][\A w \in writes :
          WriteReject(w) =>
            /\ UNCHANGED << AppState, fetches, storing >>
            /\ w \notin writes']_vars
  /\ [][\A f \in fetches' :
          (\A g \in fetches : g.id # f.id) =>
            \/ f.id = 0 /\ pc = "init"
            \/ \E w \in writes :
                  w.id = f.id /\ w.applied /\ w \notin writes']_vars
  /\ [](\A w \in writes : \A f \in fetches : f.id # w.id)

\* the write of the only save has rejected: the dashboard is displayed as
\* before, no reload is in flight and loading is false
C17_Witness ==
  /\ unhandled /\ nWrites = 1 /\ writes = {} /\ fetches = {}
  /\ storing = Null /\ ~loading
  /\ view = "ADMIN_DASHBOARD" /\ displayed = "AdminDashboard"
  /\ config = DefaultDb.config /\ products = DefaultDb.products

\* C18: isDarkMode holds exactly when the document root carries the class
\* 'dark'; a toggleTheme flips both and persists 'dark' or 'light' as the new
\* value of isDarkMode (so a second toggle flips both back); once the mount
\* effect has run, a persisted value agrees with isDarkMode, and the persisted
\* value changes only together with isDarkMode.
C18_DarkModeInSync ==
  /\ [](isDarkMode <=> rootDark)
  /\ [][toggleTheme =>
          /\ isDarkMode' = ~isDarkMode
          /\ rootDark' = ~rootDark
          /\ savedTheme' = (IF isDarkMode' THEN "dark" ELSE "light")]_vars
  /\ []((pc = "mounted" /\ savedTheme # "none") =>
          ((savedTheme = "dark") <=> isDarkMode))
  /\ [][(savedTheme' # savedTheme \/ isDarkMode' # isDarkMode) =>
          \/ pc = "init"
          \/ /\ isDarkMode' = ~isDarkMode /\ rootDark' = ~rootDark
             /\ savedTheme' \in { "dark", "light" }]_vars

\* a session that started with nothing persisted (only those start with the
\* page parameter 'admin') and in light mode has been toggled to dark and
\* back: isDarkMode and the class are restored, 'light' is persisted
C18_Witness ==
  /\ urlPage = "admin" /\ ~prefersDark
  /\ savedTheme = "light" /\ ~isDarkMode /\ ~rootDark

=============================================================================
